---- MODULE Spec2Model ----
(***************************************************************************)
(* Asset-tracker: authentication (login, logout, session cookies, the      *)
(* dashboard) and the user-administration views (list, create, update,     *)
(* deactivate, reactivate) of src/authentication, together with the        *)
(* bootstrap script src/create_superuser.py.                               *)
(*                                                                         *)
(* The views are thin calls into the web framework's authentication,       *)
(* session and form machinery.  Each action below is one HTTP request      *)
(* handled from the session middleware's load of the cookie to the         *)
(* middleware's handling of the response cookie.  The framework runs with  *)
(* its default settings: database-backed sessions that are saved only when *)
(* modified, messages kept in a cookie, the model authentication backend.  *)
(* Usernames are unique, so the input forms, which name two usernames,     *)
(* bound the user table.                                                   *)
(*                                                                         *)
(* Text that goes through form cleaning (usernames, e-mail addresses,      *)
(* names) is a sequence of one-character strings, so that trimming and     *)
(* the search for "@" are computed.  Passwords are strings.                *)
(***************************************************************************)
EXTENDS Naturals, Sequences, FiniteSets, TLC

VARIABLES
    users,      \* auth_user table: id -> row (groups: the user's role links)
    sessions,   \* django_session table: session key -> row
    nextKey,    \* number of the next fresh session key
    cookie,     \* sessionid cookie held by each HTTP client
    now,        \* wall clock, in seconds
    response,   \* the last HTTP response, with the request it answers
    inflight    \* requests being handled concurrently: what each has read

vars == <<users, sessions, nextKey, cookie, now, response, inflight>>

(***************************************************************************)
(* Bounds of the model                                                     *)
(***************************************************************************)
MaxSessions == 2
MaxClock == 2

(***************************************************************************)
(* Program constants                                                       *)
(***************************************************************************)
SESSION_COOKIE_AGE == 1209600
MinPasswordLength == 8

NoKey == 0
Anonymous == 0
NoRole == "none"
Clients == {"browser"}
Salts == {"salt1"}

\* The clock advances by half a session lifetime, MaxClock times at most
TickStep == SESSION_COOKIE_AGE \div 2

(***************************************************************************)
(* Text                                                                    *)
(***************************************************************************)
Admin == <<"a", "d", "m", "i", "n">>
AdminEmail == <<"a", "d", "m", "i", "n", "@", "a", "s", "s", "e", "t", "t", "r", "a",
                "c", "k", "e", "r", ".", "c", "o", "m">>
AdminPassword == "admin123"
UserPassword == "userpass9"
Ann == <<"a", "n", "n">>
AnnPadded == <<" ", "a", "n", "n">>
AnnEmail == <<"a", "@", "x", ".", "i", "o">>
AnnEmailPadded == <<" ", "a", "@", "y", ".", "i", "o", " ">>
NoAtEmail == <<"a", "x", ".", "i", "o">>
FirstPadded == <<" ", "A", "n">>
Last == <<"L", "e", "e">>

Whitespace == {" ", "\t", "\n"}

RECURSIVE LStrip(_)
LStrip(s) ==
    IF s # <<>> /\ Head(s) \in Whitespace THEN LStrip(Tail(s)) ELSE s

RECURSIVE RStrip(_)
RStrip(s) ==
    IF s # <<>> /\ s[Len(s)] \in Whitespace
    THEN RStrip(SubSeq(s, 1, Len(s) - 1))
    ELSE s

\* str.strip(), which every CharField of a form applies to its input
Strip(s) == LStrip(RStrip(s))

Contains(s, ch) == \E i \in 1..Len(s) : s[i] = ch

\* position of the last "@": value.rsplit("@", 1)
LastAt(s) == CHOOSE i \in 1..Len(s) : s[i] = "@" /\ \A j \in (i + 1)..Len(s) : s[j] # "@"

(***************************************************************************)
(* Field validators of the forms                                           *)
(***************************************************************************)
NoWhitespace(s) == \A i \in 1..Len(s) : s[i] \notin Whitespace

\* the domain part of an address: labels separated by dots, a top-level label
DomainOK(d) ==
    /\ d # <<>>
    /\ NoWhitespace(d)
    /\ Contains(d, ".")
    /\ d[1] # "." /\ d[Len(d)] # "."
    /\ \A i \in 1..(Len(d) - 1) : ~(d[i] = "." /\ d[i + 1] = ".")

\* forms.EmailField: the e-mail validator on the trimmed value
EmailValidator(e) ==
    /\ Contains(e, "@")
    /\ LET i == LastAt(e)
           user_part == SubSeq(e, 1, i - 1)
           domain_part == SubSeq(e, i + 1, Len(e))
       IN /\ user_part # <<>>
          /\ NoWhitespace(user_part)
          /\ ~Contains(user_part, "@")
          /\ DomainOK(domain_part)

\* clean_email of both forms: reject an address without "@"
clean_email_ok(email) == ~(email # <<>> /\ ~Contains(email, "@"))

\* The username validator: letters, digits and @ . + - _ only, at least one
UsernameValidator(u) == u # <<>> /\ NoWhitespace(u)

(***************************************************************************)
(* Passwords                                                               *)
(***************************************************************************)
\* make_password: a salted one-way hash; the digest stands for the hash of
\* (salt, password) and is never compared with a plaintext
make_password(password, salt) ==
    [algorithm |-> "pbkdf2_sha256", salt |-> salt, digest |-> <<salt, password>>]

\* What the password field would hold if the raw password were stored in
\* it: no algorithm, no salt, the password itself in place of the digest
Plaintext(password) ==
    [algorithm |-> "", salt |-> "", digest |-> <<"", password>>]

check_password(password, encoded) ==
    encoded = make_password(password, encoded.salt)

\* The password validators of the project settings: minimum length
password_validators_ok(password) == Len(password) >= MinPasswordLength

(***************************************************************************)
(* Roles and permissions                                                   *)
(***************************************************************************)
Groups == {"Manager", "Viewer"}

GroupPermissions(g) ==
    IF g = "Manager"
    THEN {"auth.view_user", "auth.add_user", "auth.change_user"}
    ELSE {"auth.view_user"}

\* user.has_perm: an active superuser has every permission; an inactive user
\* has none; otherwise the permissions of the user's groups
has_perm(U, uid, perm) ==
    /\ uid # Anonymous
    /\ U[uid].is_active
    /\ \/ U[uid].is_superuser
       \/ \E g \in U[uid].groups : perm \in GroupPermissions(g)

(***************************************************************************)
(* Authenticator: authenticate(request, username, password), views.py:31   *)
(***************************************************************************)
find_by_username(U, username) ==
    IF \E id \in DOMAIN U : U[id].username = username
    THEN CHOOSE id \in DOMAIN U : U[id].username = username
    ELSE Anonymous

\* A backend that forgets to check the password
authenticate_any_password(U, username, password) ==
    LET id == find_by_username(U, username)
    IN IF id # Anonymous /\ U[id].is_active THEN id ELSE Anonymous

\* A backend that forgets to refuse inactive users
authenticate_inactive(U, username, password) ==
    LET id == find_by_username(U, username)
    IN IF id # Anonymous /\ check_password(password, U[id].password)
       THEN id
       ELSE Anonymous

\* The model backend: look the user up by username, check the password
\* against the stored hash and refuse an inactive user.
authenticate(U, username, password) ==
    LET id == find_by_username(U, username)
    IN IF /\ id # Anonymous
          /\ check_password(password, U[id].password)
          /\ U[id].is_active
       THEN id
       ELSE Anonymous

(***************************************************************************)
(* Session manager                                                         *)
(***************************************************************************)
\* A load that forgets the expiry date
SessionLoad_ignores_expiry(S, t, key) == IF key \in DOMAIN S THEN key ELSE NoKey

\* SessionStore.load: the row of the key, if it has not expired
SessionLoad(S, t, key) ==
    IF key \in DOMAIN S /\ S[key].expire_date > t THEN key ELSE NoKey

\* The session was issued for a password the user no longer has
StaleHash(U, S, t, key) ==
    LET k == SessionLoad(S, t, key)
    IN /\ k # NoKey
       /\ S[k].auth_user_id \in DOMAIN U
       /\ U[S[k].auth_user_id].is_active
       /\ S[k].auth_hash # U[S[k].auth_user_id].password

\* A resolver that admits superusers only
get_user_superuser_only(U, S, t, key) ==
    LET k == SessionLoad(S, t, key)
    IN IF k = NoKey THEN Anonymous
       ELSE LET uid == S[k].auth_user_id
            IN IF /\ uid \in DOMAIN U
                  /\ U[uid].is_active
                  /\ U[uid].is_superuser
                  /\ S[k].auth_hash = U[uid].password
               THEN uid
               ELSE Anonymous

\* A resolver that does not look at the user's active flag
get_user_ignores_active(U, S, t, key) ==
    LET k == SessionLoad(S, t, key)
    IN IF k = NoKey THEN Anonymous
       ELSE LET uid == S[k].auth_user_id
            IN IF uid \in DOMAIN U /\ S[k].auth_hash = U[uid].password
               THEN uid
               ELSE Anonymous

\* get_user(request): resolve the cookie's session key to request.user
get_user(U, S, t, key) ==
    LET k == SessionLoad(S, t, key)
    IN IF k = NoKey THEN Anonymous
       ELSE LET uid == S[k].auth_user_id
            IN IF /\ uid \in DOMAIN U
                  /\ U[uid].is_active
                  /\ S[k].auth_hash = U[uid].password
               THEN uid
               ELSE Anonymous

Remove(S, key) == [k \in DOMAIN S \ {key} |-> S[k]]

\* A middleware that saves the session on every request (sliding expiry)
SessionsAfterAuth_sliding(c) ==
    IF StaleHash(users, sessions, now, cookie[c])
    THEN Remove(sessions, cookie[c])
    ELSE IF SessionLoad(sessions, now, cookie[c]) # NoKey
    THEN [sessions EXCEPT ![cookie[c]].expire_date = now + SESSION_COOKIE_AGE]
    ELSE sessions

\* Session table after request.user has been resolved: a session whose hash
\* no longer verifies is flushed
SessionsAfterAuth(c) ==
    IF StaleHash(users, sessions, now, cookie[c])
    THEN Remove(sessions, cookie[c])
    ELSE sessions

\* Session middleware on the way out: a request that came with a cookie and
\* ends with an empty session has its cookie deleted
CookieAfterAuth(c) ==
    IF \/ SessionLoad(sessions, now, cookie[c]) = NoKey
       \/ StaleHash(users, sessions, now, cookie[c])
    THEN [cookie EXCEPT ![c] = NoKey]
    ELSE cookie

RequestUser(c) == get_user(users, sessions, now, cookie[c])

(***************************************************************************)
(* Requests and responses                                                  *)
(***************************************************************************)
EmptyForm ==
    [pk |-> 0, username |-> <<>>, password |-> "", password1 |-> "", password2 |-> "",
     email |-> <<>>, first_name |-> <<>>, last_name |-> <<>>, is_active |-> FALSE,
     role |-> NoRole, next |-> ""]

\* session_key is the sessionid cookie the request carried
\* and pk, username the user the request names
Response(op, c, form, status, user, location, message, errors) ==
    [op |-> op, client |-> c, session_key |-> cookie[c], pk |-> form.pk,
     username |-> form.username, password |-> form.password, status |-> status,
     user |-> user,
     location |-> location, message |-> message, errors |-> errors]

\* login_required, LoginRequiredMixin: redirect to the login page with next
RedirectToLogin(op, c, form, path) ==
    Response(op, c, form, 302, Anonymous, "login?next=" \o path, "", {})

\* A permission check without raise_exception: it sends the caller to login
PermissionDenied_redirects(op, c, form) ==
    Response(op, c, form, 302, Anonymous, "login?next=", "", {})

\* permission_required(raise_exception=True), PermissionRequiredMixin
PermissionDenied(op, c, form) ==
    Response(op, c, form, 403, RequestUser(c), "", "", {})

NotFound(op, c, form) ==
    Response(op, c, form, 404, RequestUser(c), "", "", {})

\* The requests that may be in flight at once, and one that has not started
Requests == {"first", "second"}

Idle == [op |-> "none", pc |-> "idle", pk |-> 0, form |-> EmptyForm, user |-> <<>>]

Init ==
    /\ inflight = [r \in Requests |-> Idle]
    /\ users = <<>>
    /\ sessions = <<>>
    /\ nextKey = 1
    /\ cookie = [c \in Clients |-> NoKey]
    /\ now = 0
    /\ response = [op |-> "none", client |-> "browser", session_key |-> NoKey,
                   pk |-> 0, username |-> <<>>, password |-> "", status |-> 0,
                   user |-> Anonymous,
                   location |-> "", message |-> "", errors |-> {}]

(***************************************************************************)
(* src/create_superuser.py                                                 *)
(***************************************************************************)
NewId(U) == Cardinality(DOMAIN U) + 1

UserRow(username, email, password, superuser, groups, t) ==
    [username |-> username, email |-> email, first_name |-> <<>>, last_name |-> <<>>,
     password |-> password, is_active |-> TRUE, is_superuser |-> superuser,
     date_joined |-> t, groups |-> groups]

\* Create the superuser "admin" unless a user of that name exists
create_superuser ==
    /\ find_by_username(users, Admin) = Anonymous
    /\ \E salt \in Salts :
          users' = users @@ (NewId(users) :>
                      UserRow(Admin, AdminEmail, make_password(AdminPassword, salt),
                              TRUE, {}, now))
    /\ UNCHANGED <<sessions, nextKey, cookie, now, response>>

(***************************************************************************)
(* LoginView, LogoutView, dashboard_view                                   *)
(***************************************************************************)
LoginForms ==
    {[EmptyForm EXCEPT !.username = Admin, !.password = AdminPassword],
     [EmptyForm EXCEPT !.username = Admin, !.password = AdminPassword,
                       !.next = "/users/"],
     [EmptyForm EXCEPT !.username = Ann, !.password = UserPassword],
     [EmptyForm EXCEPT !.username = Ann, !.password = AdminPassword],
     [EmptyForm EXCEPT !.username = AnnPadded, !.password = UserPassword]}

SessionRow(uid, hash, t) ==
    [auth_user_id |-> uid, auth_hash |-> hash, expire_date |-> t + SESSION_COOKIE_AGE]

\* login(request, user) keeps the session key only when the session already
\* belongs to the same user with the same hash; otherwise the old session is
\* flushed or its key cycled, and a fresh key is generated
KeepsKey(c, uid) ==
    LET k == SessionLoad(sessions, now, cookie[c])
    IN /\ k # NoKey
       /\ sessions[k].auth_user_id = uid
       /\ sessions[k].auth_hash = users[uid].password

\* A login that keeps the cookie's key whenever its row names the same user,
\* expired or not
SessionKeyFor_reuses_expired(c, uid) ==
    IF cookie[c] \in DOMAIN sessions /\ sessions[cookie[c]].auth_user_id = uid
    THEN cookie[c]
    ELSE nextKey

\* The key under which login(request, user) stores the session
SessionKeyFor(c, uid) == IF KeepsKey(c, uid) THEN cookie[c] ELSE nextKey

\* LoginView.get
LoginGet(c) ==
    /\ response' =
          IF RequestUser(c) # Anonymous
          THEN Response("login_get", c, EmptyForm, 302, RequestUser(c), "dashboard", "", {})
          ELSE Response("login_get", c, EmptyForm, 200, Anonymous, "", "", {})
    /\ sessions' = SessionsAfterAuth(c)
    /\ cookie' = CookieAfterAuth(c)
    /\ UNCHANGED <<users, nextKey, now>>

\* A login view that tells an unknown username from a wrong password
LoginPost_names_unknown_user(c, f) ==
    LET username == Strip(f.username)
        uid == authenticate(users, username, f.password)
        form_is_valid == username # <<>> /\ f.password # "" /\ uid # Anonymous
        next_url == IF f.next = "" THEN "dashboard" ELSE f.next
        old == SessionLoad(sessions, now, cookie[c])
    IN IF form_is_valid
       THEN LET row == SessionRow(uid, users[uid].password, now)
                key == SessionKeyFor(c, uid)
            IN /\ key <= MaxSessions
               /\ sessions' = (key :> row) @@ Remove(sessions, old)
               /\ nextKey' = IF key = nextKey THEN nextKey + 1 ELSE nextKey
               /\ cookie' = [cookie EXCEPT ![c] = key]
               /\ response' = Response("login", c, f, 302, uid, next_url,
                                       "Welcome back", {})
               /\ UNCHANGED <<users, now>>
       ELSE /\ response' = Response("login", c, f, 200, RequestUser(c), "",
                                    IF find_by_username(users, username) = Anonymous
                                    THEN "Unknown username."
                                    ELSE "Invalid username or password.", {})
            /\ UNCHANGED <<users, sessions, nextKey, cookie, now>>

\* LoginView.post
LoginPost(c, f) ==
    LET username == Strip(f.username)
        uid == authenticate(users, username, f.password)
        form_is_valid == username # <<>> /\ f.password # "" /\ uid # Anonymous
        next_url == IF f.next = "" THEN "dashboard" ELSE f.next
        old == SessionLoad(sessions, now, cookie[c])
    IN IF form_is_valid
       THEN LET row == SessionRow(uid, users[uid].password, now)
                key == SessionKeyFor(c, uid)
            IN /\ key <= MaxSessions
               /\ sessions' = (key :> row) @@ Remove(sessions, old)
               /\ nextKey' = IF key = nextKey THEN nextKey + 1 ELSE nextKey
               /\ cookie' = [cookie EXCEPT ![c] = key]
               /\ response' = Response("login", c, f, 302, uid, next_url,
                                       "Welcome back", {})
               /\ UNCHANGED <<users, now>>
       ELSE /\ response' = Response("login", c, f, 200, RequestUser(c), "",
                                    "Invalid username or password.", {})
            /\ UNCHANGED <<users, sessions, nextKey, cookie, now>>

\* A logout that only drops the client's cookie
Logout_cookie_only(c, method) ==
    /\ cookie' = [cookie EXCEPT ![c] = NoKey]
    /\ response' = Response(method, c, EmptyForm, 302, Anonymous, "login",
                            "You have been logged out successfully.", {})
    /\ UNCHANGED <<users, sessions, nextKey, now>>

\* logout(request): flush the session the request resolved
Logout(c, method) ==
    /\ sessions' = Remove(sessions, SessionLoad(sessions, now, cookie[c]))
    /\ cookie' = [cookie EXCEPT ![c] = NoKey]
    /\ response' = Response(method, c, EmptyForm, 302, Anonymous, "login",
                            "You have been logged out successfully.", {})
    /\ UNCHANGED <<users, nextKey, now>>

\* LogoutView.post
LogoutPost(c) == Logout(c, "logout_post")

\* LogoutView.get
LogoutGet(c) == Logout(c, "logout_get")

\* dashboard_view behind login_required
dashboard_view(c) ==
    /\ response' =
          IF RequestUser(c) # Anonymous
          THEN Response("dashboard", c, EmptyForm, 200, RequestUser(c), "", "", {})
          ELSE RedirectToLogin("dashboard", c, EmptyForm, "/dashboard/")
    /\ sessions' = SessionsAfterAuth(c)
    /\ cookie' = CookieAfterAuth(c)
    /\ UNCHANGED <<users, nextKey, now>>

\* Time passes
Tick ==
    /\ now + TickStep <= MaxClock * TickStep
    /\ now' = now + TickStep
    /\ UNCHANGED <<users, sessions, nextKey, cookie, response>>

(***************************************************************************)
(* forms.py: UserCreateForm, UserUpdateForm                                *)
(***************************************************************************)
CreateForms ==
    {[EmptyForm EXCEPT !.username = Ann, !.email = AnnEmail,
                       !.password1 = UserPassword, !.password2 = UserPassword],
     [EmptyForm EXCEPT !.username = AnnPadded, !.email = AnnEmail,
                       !.password1 = UserPassword, !.password2 = UserPassword,
                       !.role = "Manager"],
     [EmptyForm EXCEPT !.username = Ann, !.email = NoAtEmail,
                       !.password1 = UserPassword, !.password2 = UserPassword],
     [EmptyForm EXCEPT !.username = Ann, !.email = AnnEmail,
                       !.password1 = "short", !.password2 = "short"]}

UpdateForms ==
    {[EmptyForm EXCEPT !.username = AnnPadded, !.email = AnnEmailPadded,
                       !.first_name = FirstPadded, !.last_name = Last,
                       !.is_active = TRUE],
     [EmptyForm EXCEPT !.username = Ann, !.email = AnnEmail, !.role = "Viewer"],
     [EmptyForm EXCEPT !.username = Ann, !.email = NoAtEmail, !.is_active = TRUE]}

\* Errors of the e-mail field: required, the field's validator, clean_email
EmailErrors(f) ==
    IF \/ Strip(f.email) = <<>>
       \/ ~EmailValidator(Strip(f.email))
       \/ ~clean_email_ok(Strip(f.email))
    THEN {"email"}
    ELSE {}

RoleErrors(f) == IF f.role \in Groups \cup {NoRole} THEN {} ELSE {"role"}

\* A validation that forgets that usernames are unique
CreateErrors_no_unique(U, f) ==
    (IF ~UsernameValidator(Strip(f.username)) THEN {"username"} ELSE {})
    \cup EmailErrors(f)
    \cup (IF f.password1 = "" THEN {"password1"} ELSE {})
    \cup (IF \/ f.password2 = ""
             \/ f.password1 # f.password2
             \/ ~password_validators_ok(f.password2)
          THEN {"password2"} ELSE {})
    \cup RoleErrors(f)

\* A validation that leaves the e-mail address unchecked
CreateErrors_no_email(U, f) ==
    (IF \/ ~UsernameValidator(Strip(f.username))
        \/ find_by_username(U, Strip(f.username)) # Anonymous
     THEN {"username"} ELSE {})
    \cup (IF f.password1 = "" THEN {"password1"} ELSE {})
    \cup (IF \/ f.password2 = ""
             \/ f.password1 # f.password2
             \/ ~password_validators_ok(f.password2)
          THEN {"password2"} ELSE {})
    \cup RoleErrors(f)

\* UserCreateForm.is_valid: the fields of Meta.fields with their validators
CreateErrors(U, f) ==
    (IF \/ ~UsernameValidator(Strip(f.username))
        \/ find_by_username(U, Strip(f.username)) # Anonymous
     THEN {"username"} ELSE {})
    \cup EmailErrors(f)
    \cup (IF f.password1 = "" THEN {"password1"} ELSE {})
    \cup (IF \/ f.password2 = ""
             \/ f.password1 # f.password2
             \/ ~password_validators_ok(f.password2)
          THEN {"password2"} ELSE {})
    \cup RoleErrors(f)

\* A save that assigns the raw password to the password field
CreatedUser_stores_plaintext(f, salt, t) ==
    UserRow(Strip(f.username), Strip(f.email), Plaintext(f.password1), FALSE,
            IF f.role = NoRole THEN {} ELSE {f.role}, t)

\* UserCreateForm.save: the new row, the password hashed, the role added
CreatedUser(f, salt, t) ==
    UserRow(Strip(f.username), Strip(f.email), make_password(f.password1, salt), FALSE,
            IF f.role = NoRole THEN {} ELSE {f.role}, t)

\* UserUpdateForm.is_valid: username is a field of the form (Meta.fields)
\* and must stay unique among the other users
UpdateErrors(U, pk, f) ==
    (IF \/ ~UsernameValidator(Strip(f.username))
        \/ find_by_username(U, Strip(f.username)) \notin {Anonymous, pk}
     THEN {"username"} ELSE {})
    \cup EmailErrors(f)
    \cup RoleErrors(f)

\* A save that leaves the username out of the written fields
UpdatedUser_keeps_username(u, f) ==
    [u EXCEPT !.email = Strip(f.email),
              !.first_name = Strip(f.first_name),
              !.last_name = Strip(f.last_name),
              !.is_active = f.is_active,
              !.groups = IF f.role = NoRole THEN {} ELSE {f.role}]

\* A save that also writes the form's (blank) password
UpdatedUser_writes_password(u, f) ==
    [u EXCEPT !.username = Strip(f.username),
              !.email = Strip(f.email),
              !.first_name = Strip(f.first_name),
              !.last_name = Strip(f.last_name),
              !.is_active = f.is_active,
              !.password = make_password(f.password, u.password.salt),
              !.groups = IF f.role = NoRole THEN {} ELSE {f.role}]

\* A save that adds the submitted role without clearing the role links
UpdatedUser_adds_role(u, f) ==
    [u EXCEPT !.username = Strip(f.username),
              !.email = Strip(f.email),
              !.first_name = Strip(f.first_name),
              !.last_name = Strip(f.last_name),
              !.is_active = f.is_active,
              !.groups = IF f.role = NoRole THEN u.groups ELSE u.groups \cup {f.role}]

\* A save that takes an omitted active flag as "leave it as it is"
UpdatedUser_keeps_active(u, f) ==
    [u EXCEPT !.username = Strip(f.username),
              !.email = Strip(f.email),
              !.first_name = Strip(f.first_name),
              !.last_name = Strip(f.last_name),
              !.is_active = IF f.is_active THEN TRUE ELSE u.is_active,
              !.groups = IF f.role = NoRole THEN {} ELSE {f.role}]

\* UserUpdateForm.save: the fields of Meta.fields are written from the
\* cleaned data; the role links are cleared and the submitted role added
UpdatedUser(u, f) ==
    [u EXCEPT !.username = Strip(f.username),
              !.email = Strip(f.email),
              !.first_name = Strip(f.first_name),
              !.last_name = Strip(f.last_name),
              !.is_active = f.is_active,
              !.groups = IF f.role = NoRole THEN {} ELSE {f.role}]

(***************************************************************************)
(* views.py: the user-administration views                                 *)
(***************************************************************************)
\* Code points of the characters of the usernames, by which the database
\* compares text
CodePoint ==
    ("a" :> 97) @@ ("d" :> 100) @@ ("i" :> 105) @@ ("m" :> 109) @@ ("n" :> 110)

\* s sorts before t
RECURSIVE LexLess(_, _)
LexLess(s, t) ==
    IF t = <<>> THEN FALSE
    ELSE IF s = <<>> THEN TRUE
    ELSE IF Head(s) = Head(t) THEN LexLess(Tail(s), Tail(t))
    ELSE CodePoint[Head(s)] < CodePoint[Head(t)]

\* The rows of the table in the order of a sequence of primary keys
Rows(U, q) == [i \in DOMAIN q |-> [pk |-> q[i], user |-> U[q[i]]]]

\* The permutations of the primary keys
Orders(U) ==
    {q \in [1..Cardinality(DOMAIN U) -> DOMAIN U] :
        \A i, j \in DOMAIN q : q[i] = q[j] => i = j}

\* A list in the order of the primary keys
get_queryset_by_pk(U) ==
    Rows(U, CHOOSE q \in Orders(U) : \A i, j \in DOMAIN q : i < j => q[i] < q[j])

\* UserListView.get_queryset: User.objects.all() ... order_by('username')
get_queryset(U) ==
    Rows(U, CHOOSE q \in Orders(U) :
               \A i, j \in DOMAIN q :
                  i < j => ~LexLess(U[q[j]].username, U[q[i]].username))

\* UserListView
UserListView(c) ==
    /\ response' =
          IF RequestUser(c) = Anonymous
          THEN RedirectToLogin("user_list", c, EmptyForm, "/users/")
          ELSE IF ~has_perm(users, RequestUser(c), "auth.view_user")
          THEN PermissionDenied("user_list", c, EmptyForm)
          ELSE Response("user_list", c, EmptyForm, 200, RequestUser(c), "", "", {})
                  @@ [users |-> get_queryset(users)]
    /\ sessions' = SessionsAfterAuth(c)
    /\ cookie' = CookieAfterAuth(c)
    /\ UNCHANGED <<users, nextKey, now>>

\* UserCreateView.post
UserCreateView(c, f) ==
    /\ sessions' = SessionsAfterAuth(c)
    /\ cookie' = CookieAfterAuth(c)
    /\ UNCHANGED <<nextKey, now>>
    /\ IF RequestUser(c) = Anonymous
       THEN /\ response' = RedirectToLogin("user_create", c, f, "/users/create/")
            /\ UNCHANGED users
       ELSE IF ~has_perm(users, RequestUser(c), "auth.add_user")
       THEN /\ response' = PermissionDenied("user_create", c, f)
            /\ UNCHANGED users
       ELSE IF CreateErrors(users, f) = {}
       THEN /\ \E salt \in Salts :
                  users' = users @@ (NewId(users) :> CreatedUser(f, salt, now))
            /\ response' = Response("user_create", c, f, 302, RequestUser(c), "user_list",
                                    "created successfully", {})
       ELSE /\ response' = Response("user_create", c, f, 200, RequestUser(c), "",
                                    "Please correct the errors below.",
                                    CreateErrors(users, f))
            /\ UNCHANGED users

\* An update view that saves the instance the form has filled in, valid or not
UserUpdateView_saves_invalid(c, pk, f) ==
    LET g == [f EXCEPT !.pk = pk]
    IN /\ sessions' = SessionsAfterAuth(c)
       /\ cookie' = CookieAfterAuth(c)
       /\ UNCHANGED <<nextKey, now>>
       /\ IF RequestUser(c) = Anonymous
          THEN /\ response' = RedirectToLogin("user_update", c, g, "/users/pk/edit/")
               /\ UNCHANGED users
          ELSE IF ~has_perm(users, RequestUser(c), "auth.change_user")
          THEN /\ response' = PermissionDenied("user_update", c, g)
               /\ UNCHANGED users
          ELSE IF pk \notin DOMAIN users
          THEN /\ response' = NotFound("user_update", c, g)
               /\ UNCHANGED users
          ELSE IF UpdateErrors(users, pk, f) = {}
          THEN /\ users' = [users EXCEPT ![pk] = UpdatedUser(users[pk], f)]
               /\ response' = Response("user_update", c, g, 302, RequestUser(c),
                                       "user_list", "updated successfully", {})
          ELSE /\ response' = Response("user_update", c, g, 200, RequestUser(c), "",
                                       "Please correct the errors below.",
                                       UpdateErrors(users, pk, f))
               /\ users' = [users EXCEPT ![pk] =
                               IF "username" \in UpdateErrors(users, pk, f)
                               THEN [UpdatedUser(users[pk], f) EXCEPT
                                        !.username = users[pk].username]
                               ELSE UpdatedUser(users[pk], f)]

\* UserUpdateView.post
UserUpdateView(c, pk, f) ==
    LET g == [f EXCEPT !.pk = pk]
    IN /\ sessions' = SessionsAfterAuth(c)
       /\ cookie' = CookieAfterAuth(c)
       /\ UNCHANGED <<nextKey, now>>
       /\ IF RequestUser(c) = Anonymous
          THEN /\ response' = RedirectToLogin("user_update", c, g, "/users/pk/edit/")
               /\ UNCHANGED users
          ELSE IF ~has_perm(users, RequestUser(c), "auth.change_user")
          THEN /\ response' = PermissionDenied("user_update", c, g)
               /\ UNCHANGED users
          ELSE IF pk \notin DOMAIN users
          THEN /\ response' = NotFound("user_update", c, g)
               /\ UNCHANGED users
          ELSE IF UpdateErrors(users, pk, f) = {}
          THEN /\ users' = [users EXCEPT ![pk] = UpdatedUser(users[pk], f)]
               /\ response' = Response("user_update", c, g, 302, RequestUser(c),
                                       "user_list", "updated successfully", {})
          ELSE /\ response' = Response("user_update", c, g, 200, RequestUser(c), "",
                                       "Please correct the errors below.",
                                       UpdateErrors(users, pk, f))
               /\ UNCHANGED users

\* A deactivation that flips the flag
Deactivated_toggles(u) == [u EXCEPT !.is_active = ~u.is_active]

\* user.is_active = False; user.save()
Deactivated(u) == [u EXCEPT !.is_active = FALSE]

\* A reactivation pasted from the deactivation
Reactivated_clears_flag(u) == [u EXCEPT !.is_active = FALSE]

\* user.is_active = True; user.save()
Reactivated(u) == [u EXCEPT !.is_active = TRUE]

\* A deactivation view that is left with login_required alone
user_deactivate_login_only(c, pk) ==
    LET g == [EmptyForm EXCEPT !.pk = pk]
    IN /\ sessions' = SessionsAfterAuth(c)
       /\ cookie' = CookieAfterAuth(c)
       /\ UNCHANGED <<nextKey, now>>
       /\ IF RequestUser(c) = Anonymous
          THEN /\ response' = RedirectToLogin("user_deactivate", c, g, "/users/pk/deactivate/")
               /\ UNCHANGED users
          ELSE IF pk \notin DOMAIN users
          THEN /\ response' = NotFound("user_deactivate", c, g)
               /\ UNCHANGED users
          ELSE /\ users' = [users EXCEPT ![pk] = Deactivated(users[pk])]
               /\ response' = Response("user_deactivate", c, g, 302, RequestUser(c),
                                       "user_list", "has been deactivated.", {})

\* @login_required @permission_required('auth.change_user', raise_exception=True)
user_deactivate(c, pk) ==
    LET g == [EmptyForm EXCEPT !.pk = pk]
    IN /\ sessions' = SessionsAfterAuth(c)
       /\ cookie' = CookieAfterAuth(c)
       /\ UNCHANGED <<nextKey, now>>
       /\ IF RequestUser(c) = Anonymous
          THEN /\ response' = RedirectToLogin("user_deactivate", c, g, "/users/pk/deactivate/")
               /\ UNCHANGED users
          ELSE IF ~has_perm(users, RequestUser(c), "auth.change_user")
          THEN /\ response' = PermissionDenied("user_deactivate", c, g)
               /\ UNCHANGED users
          ELSE IF pk \notin DOMAIN users
          THEN /\ response' = NotFound("user_deactivate", c, g)
               /\ UNCHANGED users
          ELSE /\ users' = [users EXCEPT ![pk] = Deactivated(users[pk])]
               /\ response' = Response("user_deactivate", c, g, 302, RequestUser(c),
                                       "user_list", "has been deactivated.", {})

\* A reactivation that fetches the user with get_or_create
user_reactivate_creates_missing(c, pk) ==
    LET g == [EmptyForm EXCEPT !.pk = pk]
    IN /\ sessions' = SessionsAfterAuth(c)
       /\ cookie' = CookieAfterAuth(c)
       /\ UNCHANGED <<nextKey, now>>
       /\ IF RequestUser(c) = Anonymous
          THEN /\ response' = RedirectToLogin("user_reactivate", c, g, "/users/pk/reactivate/")
               /\ UNCHANGED users
          ELSE IF ~has_perm(users, RequestUser(c), "auth.change_user")
          THEN /\ response' = PermissionDenied("user_reactivate", c, g)
               /\ UNCHANGED users
          ELSE /\ users' =
                     IF pk \in DOMAIN users
                     THEN [users EXCEPT ![pk] = Reactivated(users[pk])]
                     ELSE users @@ (pk :> Reactivated(UserRow(<<>>, <<>>,
                                             make_password("", "salt1"), FALSE, {}, now)))
               /\ response' = Response("user_reactivate", c, g, 302, RequestUser(c),
                                       "user_list", "has been reactivated.", {})

\* The same decorators and shape as user_deactivate
user_reactivate(c, pk) ==
    LET g == [EmptyForm EXCEPT !.pk = pk]
    IN /\ sessions' = SessionsAfterAuth(c)
       /\ cookie' = CookieAfterAuth(c)
       /\ UNCHANGED <<nextKey, now>>
       /\ IF RequestUser(c) = Anonymous
          THEN /\ response' = RedirectToLogin("user_reactivate", c, g, "/users/pk/reactivate/")
               /\ UNCHANGED users
          ELSE IF ~has_perm(users, RequestUser(c), "auth.change_user")
          THEN /\ response' = PermissionDenied("user_reactivate", c, g)
               /\ UNCHANGED users
          ELSE IF pk \notin DOMAIN users
          THEN /\ response' = NotFound("user_reactivate", c, g)
               /\ UNCHANGED users
          ELSE /\ users' = [users EXCEPT ![pk] = Reactivated(users[pk])]
               /\ response' = Response("user_reactivate", c, g, 302, RequestUser(c),
                                       "user_list", "has been reactivated.", {})

(***************************************************************************)
(* The system                                                              *)
(***************************************************************************)
\* The primary keys a request may name: every user's and one that is absent
Pks == DOMAIN users \cup {NewId(users)}

\* Each request is handled from start to end, one after the other
Next ==
    \/ create_superuser /\ UNCHANGED inflight
    \/ \E c \in Clients : LoginGet(c) /\ UNCHANGED inflight
    \/ \E c \in Clients, f \in LoginForms : LoginPost(c, f) /\ UNCHANGED inflight
    \/ \E c \in Clients : LogoutPost(c) /\ UNCHANGED inflight
    \/ \E c \in Clients : LogoutGet(c) /\ UNCHANGED inflight
    \/ \E c \in Clients : dashboard_view(c) /\ UNCHANGED inflight
    \/ \E c \in Clients : UserListView(c) /\ UNCHANGED inflight
    \/ \E c \in Clients, f \in CreateForms : UserCreateView(c, f) /\ UNCHANGED inflight
    \/ \E c \in Clients, pk \in Pks, f \in UpdateForms : UserUpdateView(c, pk, f) /\ UNCHANGED inflight
    \/ \E c \in Clients, pk \in Pks : user_deactivate(c, pk) /\ UNCHANGED inflight
    \/ \E c \in Clients, pk \in Pks : user_reactivate(c, pk) /\ UNCHANGED inflight
    \/ Tick /\ UNCHANGED inflight

Spec == Init /\ [][Next]_vars

(***************************************************************************)
(* Concurrent requests.  The serving tier handles requests in parallel and  *)
(* the views take no lock and open no transaction, so the database queries *)
(* of two requests interleave.  A flag view runs get_object_or_404 (a      *)
(* SELECT) and user.save() (an UPDATE of every column of the row, written  *)
(* from the instance that was read); the update view runs get_object and   *)
(* the form's validation (SELECTs), user.save(), groups.clear() and        *)
(* groups.add().  The role links are rows of another table, which save()   *)
(* does not write.                                                         *)
(***************************************************************************)
\* The store the concurrent requests start from: the bootstrap superuser,
\* logged in, has created the user ann with the role Manager
InitialUsers ==
    (1 :> UserRow(Admin, AdminEmail, make_password(AdminPassword, "salt1"), TRUE, {}, 0))
    @@ (2 :> UserRow(Ann, AnnEmail, make_password(UserPassword, "salt1"), FALSE,
                     {"Manager"}, 0))

ConcInit ==
    /\ users = InitialUsers
    /\ sessions = (1 :> SessionRow(1, InitialUsers[1].password, 0))
    /\ nextKey = 2
    /\ cookie = [c \in Clients |-> 1]
    /\ now = 0
    /\ response = [op |-> "user_create", client |-> "browser", session_key |-> 1,
                   pk |-> 0, username |-> AnnPadded, password |-> "", status |-> 302,
                   user |-> 1, location |-> "user_list",
                   message |-> "created successfully", errors |-> {}]
    /\ inflight = [r \in Requests |-> Idle]

\* The row user.save() writes: every column from the instance in memory;
\* the role links stay as the store has them
SavedRow(instance, stored) == [instance EXCEPT !.groups = stored.groups]

\* The request ends with the response, having read and written nothing more
Finish(r, resp) ==
    /\ response' = resp
    /\ inflight' = [inflight EXCEPT ![r].pc = "done", ![r].op = resp.op,
                                    ![r].pk = resp.pk]

\* user_deactivate, user_reactivate: the decorators and get_object_or_404
ToggleFetch(r, c, op, pk) ==
    LET g == [EmptyForm EXCEPT !.pk = pk]
        path == IF op = "user_deactivate" THEN "/users/pk/deactivate/"
                ELSE "/users/pk/reactivate/"
    IN /\ inflight[r].pc = "idle"
       /\ sessions' = SessionsAfterAuth(c)
       /\ cookie' = CookieAfterAuth(c)
       /\ UNCHANGED <<users, nextKey, now>>
       /\ IF RequestUser(c) = Anonymous
          THEN Finish(r, RedirectToLogin(op, c, g, path))
          ELSE IF ~has_perm(users, RequestUser(c), "auth.change_user")
          THEN Finish(r, PermissionDenied(op, c, g))
          ELSE IF pk \notin DOMAIN users
          THEN Finish(r, NotFound(op, c, g))
          ELSE /\ inflight' = [inflight EXCEPT ![r] =
                                  [op |-> op, pc |-> "fetched", pk |-> pk, form |-> g,
                                   user |-> users[pk]]]
               /\ UNCHANGED response

\* user.is_active = ...; user.save(); redirect('user_list')
ToggleSave(r, c) ==
    LET q == inflight[r]
        instance == IF q.op = "user_deactivate" THEN Deactivated(q.user)
                    ELSE Reactivated(q.user)
    IN /\ q.pc = "fetched"
       /\ q.op \in {"user_deactivate", "user_reactivate"}
       /\ users' = [users EXCEPT ![q.pk] = SavedRow(instance, users[q.pk])]
       /\ response' = Response(q.op, c, q.form, 302, RequestUser(c), "user_list",
                               IF q.op = "user_deactivate" THEN "has been deactivated."
                               ELSE "has been reactivated.", {})
       /\ inflight' = [inflight EXCEPT ![r].pc = "done"]
       /\ UNCHANGED <<sessions, nextKey, cookie, now>>

\* UserUpdateView.post: the mixins, get_object and form.is_valid
UpdateFetch(r, c, pk, f) ==
    LET g == [f EXCEPT !.pk = pk]
    IN /\ inflight[r].pc = "idle"
       /\ sessions' = SessionsAfterAuth(c)
       /\ cookie' = CookieAfterAuth(c)
       /\ UNCHANGED <<users, nextKey, now>>
       /\ IF RequestUser(c) = Anonymous
          THEN Finish(r, RedirectToLogin("user_update", c, g, "/users/pk/edit/"))
          ELSE IF ~has_perm(users, RequestUser(c), "auth.change_user")
          THEN Finish(r, PermissionDenied("user_update", c, g))
          ELSE IF pk \notin DOMAIN users
          THEN Finish(r, NotFound("user_update", c, g))
          ELSE IF UpdateErrors(users, pk, f) # {}
          THEN Finish(r, Response("user_update", c, g, 200, RequestUser(c), "",
                                  "Please correct the errors below.",
                                  UpdateErrors(users, pk, f)))
          ELSE /\ inflight' = [inflight EXCEPT ![r] =
                                  [op |-> "user_update", pc |-> "fetched", pk |-> pk,
                                   form |-> g, user |-> users[pk]]]
               /\ UNCHANGED response

\* UserUpdateForm.save: user.save() of the instance the form has filled in
UpdateSave(r) ==
    LET q == inflight[r]
    IN /\ q.pc = "fetched"
       /\ q.op = "user_update"
       /\ users' = [users EXCEPT ![q.pk] =
                       SavedRow(UpdatedUser(q.user, q.form), users[q.pk])]
       /\ inflight' = [inflight EXCEPT ![r].pc = "saved"]
       /\ UNCHANGED <<sessions, nextKey, cookie, now, response>>

\* UserUpdateForm.save: user.groups.clear()
UpdateClear(r) ==
    LET q == inflight[r]
    IN /\ q.pc = "saved"
       /\ users' = [users EXCEPT ![q.pk].groups = {}]
       /\ inflight' = [inflight EXCEPT ![r].pc = "cleared"]
       /\ UNCHANGED <<sessions, nextKey, cookie, now, response>>

\* UserUpdateForm.save: user.groups.add(role) if a role was submitted; then
\* form_valid's message and redirect
UpdateAdd(r, c) ==
    LET q == inflight[r]
    IN /\ q.pc = "cleared"
       /\ users' = [users EXCEPT ![q.pk].groups =
                       IF q.form.role = NoRole THEN @ ELSE @ \cup {q.form.role}]
       /\ response' = Response("user_update", c, q.form, 302, RequestUser(c),
                               "user_list", "updated successfully", {})
       /\ inflight' = [inflight EXCEPT ![r].pc = "done"]
       /\ UNCHANGED <<sessions, nextKey, cookie, now>>

ConcNext ==
    \/ \E r \in Requests, c \in Clients, pk \in Pks :
          ToggleFetch(r, c, "user_deactivate", pk)
    \/ \E r \in Requests, c \in Clients, pk \in Pks :
          ToggleFetch(r, c, "user_reactivate", pk)
    \/ \E r \in Requests, c \in Clients : ToggleSave(r, c)
    \/ \E r \in Requests, c \in Clients, pk \in Pks, f \in UpdateForms :
          UpdateFetch(r, c, pk, f)
    \/ \E r \in Requests : UpdateSave(r)
    \/ \E r \in Requests : UpdateClear(r)
    \/ \E r \in Requests, c \in Clients : UpdateAdd(r, c)

ConcSpec == ConcInit /\ [][ConcNext]_vars

(***************************************************************************)
(* Properties                                                              *)
(***************************************************************************)
Passwords == {AdminPassword, UserPassword, "short"}

Rejected(r) ==
    /\ r.op = "login"
    /\ r.status = 200
    /\ r.message = "Invalid username or password."

\* The administrative write went through: the redirect to the user list
Saved(r) == r.status = 302 /\ r.location = "user_list"

\* C1: an account created from a valid (username, password) pair can log in
\* with that pair, and the login issues a session bound to the user's id; a
\* login with an existing username and a password that does not match, or
\* with a username that does not exist, is rejected and changes no session.
C1_CreateThenLogin ==
    [][/\ (response'.op = "user_create" /\ Saved(response')) =>
             \A c \in Clients, f \in CreateForms :
                UserCreateView(c, f) =>
                   LET id == NewId(users)
                   IN /\ DOMAIN users' = DOMAIN users \cup {id}
                      /\ users'[id].is_active
                      /\ authenticate(users', Strip(f.username), f.password1) = id
       /\ response'.op = "login" =>
             \A c \in Clients, f \in LoginForms :
                LoginPost(c, f) =>
                   LET id == find_by_username(users, Strip(f.username))
                   IN IF \/ id = Anonymous
                         \/ ~check_password(f.password, users[id].password)
                      THEN /\ Rejected(response')
                           /\ sessions' = sessions
                           /\ cookie' = cookie
                      ELSE users[id].is_active =>
                              /\ response'.status = 302
                              /\ response'.user = id
                              /\ cookie'[c] \in DOMAIN sessions'
                              /\ sessions'[cookie'[c]].auth_user_id = id
      ]_vars

\* A created (not bootstrapped) account has logged in and holds a session
C1_Witness ==
    /\ response.op = "login"
    /\ response.status = 302
    /\ response.user \in DOMAIN users
    /\ ~users[response.user].is_superuser
    /\ check_password(response.password, users[response.user].password)
    /\ cookie[response.client] \in DOMAIN sessions
    /\ sessions[cookie[response.client]].auth_user_id = response.user

\* C2: a login for a user whose active flag is false is rejected and creates
\* no session, whether or not the password is correct.
C2_InactiveLoginRejected ==
    [][response'.op = "login" =>
          \A c \in Clients, f \in LoginForms :
             LET id == find_by_username(users, Strip(f.username))
             IN (LoginPost(c, f) /\ id # Anonymous /\ ~users[id].is_active) =>
                   /\ Rejected(response')
                   /\ sessions' = sessions
                   /\ cookie' = cookie
      ]_vars

\* A deactivated user was refused with the correct password
C2_Witness ==
    /\ Rejected(response)
    /\ \E id \in DOMAIN users :
          /\ users[id].username = Strip(response.username)
          /\ ~users[id].is_active
          /\ check_password(response.password, users[id].password)

\* C3: deactivate(id) followed by reactivate(id) restores the login: neither
\* view touches the username or the password hash, and after the
\* reactivation every password that verifies against the hash authenticates
\* the user again.
C3_ReactivationRoundTrip ==
    [][/\ (response'.op = "user_deactivate" /\ Saved(response')) =>
             \A c \in Clients :
                user_deactivate(c, response'.pk) =>
                   LET pk == response'.pk
                   IN /\ users'[pk].username = users[pk].username
                      /\ users'[pk].password = users[pk].password
                      /\ ~users'[pk].is_active
       /\ (response'.op = "user_reactivate" /\ Saved(response')) =>
             \A c \in Clients :
                user_reactivate(c, response'.pk) =>
                   LET pk == response'.pk
                   IN /\ users'[pk].username = users[pk].username
                      /\ users'[pk].password = users[pk].password
                      /\ \A p \in Passwords :
                            check_password(p, users[pk].password) =>
                               authenticate(users', users[pk].username, p) = pk
      ]_vars

\* A user other than the caller has been reactivated from the inactive state
\* the deactivation left, and can authenticate
C3_Witness ==
    /\ response.op = "user_reactivate"
    /\ Saved(response)
    /\ response.pk # response.user
    /\ users[response.pk].is_active
    /\ authenticate(users, users[response.pk].username, UserPassword) = response.pk

\* The states of a session key that has been issued
Status(S, t, k) ==
    IF k \notin DOMAIN S THEN "Revoked"
    ELSE IF S[k].expire_date <= t THEN "Expired"
    ELSE "Active"

Issued == 1..(nextKey - 1)

\* C4: after a logout, by POST or by GET, the session the request carried
\* resolves to no principal, and a session removed from storage resolves to
\* no principal in every later state.
C4_LogoutRevokes ==
    [][/\ response'.op \in {"logout_post", "logout_get"} =>
             \A c \in Clients :
                (LogoutPost(c) \/ LogoutGet(c)) =>
                   /\ cookie'[c] = NoKey
                   /\ cookie[c] # NoKey =>
                         /\ Status(sessions', now', cookie[c]) # "Active"
                         /\ get_user(users', sessions', now', cookie[c]) = Anonymous
       /\ \A k \in Issued :
             k \notin DOMAIN sessions =>
                /\ k \notin DOMAIN sessions'
                /\ get_user(users', sessions', now', k) = Anonymous
      ]_vars

\* A GET logout removed the live session the request carried
C4_Witness ==
    /\ response.op = "logout_get"
    /\ response.session_key # NoKey
    /\ response.session_key \notin DOMAIN sessions
    /\ get_user(users, sessions, now, response.session_key) = Anonymous

\* C5: a session whose expiry time has passed resolves to no principal while
\* its row is still in storage, and the dashboard treats its bearer as
\* unauthenticated.
C5_LazyExpiry ==
    [][response'.op = "dashboard" =>
          \A c \in Clients :
             LET k == cookie[c]
             IN (/\ dashboard_view(c)
                 /\ k \in DOMAIN sessions
                 /\ sessions[k].expire_date <= now) =>
                   /\ get_user(users, sessions, now, k) = Anonymous
                   /\ response'.status = 302
                   /\ response'.location = "login?next=/dashboard/"
                   /\ response'.user = Anonymous
                   /\ k \in DOMAIN sessions'
                   /\ sessions'[k] = sessions[k]
      ]_vars

\* The dashboard turned away the bearer of an expired session still stored
C5_Witness ==
    /\ response.op = "dashboard"
    /\ response.status = 302
    /\ response.session_key \in DOMAIN sessions
    /\ sessions[response.session_key].expire_date <= now
    /\ users[sessions[response.session_key].auth_user_id].is_active

\* C6: a session that is Expired or Revoked stays in that state and never
\* resolves to a principal again, whatever request or clock step follows.
C6_SessionStateMachine ==
    [][\A k \in Issued :
          Status(sessions, now, k) # "Active" =>
             /\ Status(sessions', now', k) = Status(sessions, now, k)
             /\ get_user(users', sessions', now', k) = Anonymous
      ]_vars

\* A login was accepted from a client that still sent an expired session:
\* the expired row is still stored and a new key was issued
C6_Witness ==
    /\ response.op = "login"
    /\ response.status = 302
    /\ response.session_key \in DOMAIN sessions
    /\ Status(sessions, now, response.session_key) = "Expired"
    /\ sessions[response.session_key].auth_user_id = response.user
    /\ cookie[response.client] # response.session_key

\* C7 as stated: every stored session resolves to its user on a dashboard
\* request made before its expiry.
C7_Original ==
    [][response'.op = "dashboard" =>
          \A c \in Clients :
             LET k == cookie[c]
             IN (/\ dashboard_view(c)
                 /\ k \in DOMAIN sessions
                 /\ now < sessions[k].expire_date) =>
                   /\ response'.status = 200
                   /\ response'.user = sessions[k].auth_user_id
      ]_vars

\* C7, amended: a session that is still stored (neither logged out nor
\* replaced by a later login of its client) and whose user is active resolves
\* to that user on a dashboard request made before its expiry; the dashboard
\* is served and the session stays bound to the user's id.
C7_PersistsWhileActive ==
    [][response'.op = "dashboard" =>
          \A c \in Clients :
             LET k == cookie[c]
             IN (/\ dashboard_view(c)
                 /\ k \in DOMAIN sessions
                 /\ now < sessions[k].expire_date
                 /\ users[sessions[k].auth_user_id].is_active) =>
                   /\ response'.status = 200
                   /\ response'.user = sessions[k].auth_user_id
                   /\ cookie'[c] = k
                   /\ k \in DOMAIN sessions'
                   /\ sessions'[k].auth_user_id = sessions[k].auth_user_id
      ]_vars

\* The dashboard was served to a created account some time after its login
C7_Witness ==
    /\ response.op = "dashboard"
    /\ response.status = 200
    /\ ~users[response.user].is_superuser
    /\ cookie[response.client] \in DOMAIN sessions
    /\ sessions[cookie[response.client]].auth_user_id = response.user
    /\ sessions[cookie[response.client]].expire_date < now + SESSION_COOKIE_AGE

\* C8: a session's expiry is set to the time of issuance plus the fixed
\* timeout, and no request other than a successful login carrying the
\* session, which issues it anew, changes the expiry of a stored session.
C8_ExpiryFixedAtIssuance ==
    [][\A k \in DOMAIN sessions' :
          IF k \in DOMAIN sessions
          THEN sessions'[k].expire_date # sessions[k].expire_date =>
                  /\ response'.op = "login"
                  /\ response'.status = 302
                  /\ response'.session_key = k
                  /\ sessions'[k].expire_date = now + SESSION_COOKIE_AGE
          ELSE sessions'[k].expire_date = now + SESSION_COOKIE_AGE
      ]_vars

\* A user-administration request was served, some time after the login, on
\* a session that still has the expiry of its issuance
C8_Witness ==
    /\ response.op \in {"user_list", "user_deactivate", "user_update"}
    /\ response.status \in {200, 302}
    /\ response.user # Anonymous
    /\ response.session_key \in DOMAIN sessions
    /\ now > 0
    /\ sessions[response.session_key].expire_date = SESSION_COOKIE_AGE

\* C9 as stated: an update never changes the username.
C9_Original ==
    [][response'.op = "user_update" =>
          \A c \in Clients, f \in UpdateForms :
             (UserUpdateView(c, response'.pk, f) /\ response'.pk \in DOMAIN users) =>
                users'[response'.pk].username = users[response'.pk].username
      ]_vars

\* C9, amended: the username is a field of the update form.  A successful
\* update sets it to the submitted username, trimmed of surrounding
\* whitespace, so it is untouched exactly when that equals the current one;
\* a rejected update leaves it untouched.
C9_UsernameFromForm ==
    [][response'.op = "user_update" =>
          \A c \in Clients, f \in UpdateForms :
             (UserUpdateView(c, response'.pk, f) /\ response'.pk \in DOMAIN users) =>
                users'[response'.pk].username =
                   IF Saved(response') THEN Strip(f.username)
                   ELSE users[response'.pk].username
      ]_vars

\* The bootstrap superuser has been renamed by an update
C9_Witness ==
    /\ response.op = "user_update"
    /\ Saved(response)
    /\ users[response.pk].is_superuser
    /\ users[response.pk].username = Ann
    /\ Strip(response.username) = Ann

RoleSet(f) == IF f.role = NoRole THEN {} ELSE {f.role}

\* C11: role assignment is a full replace and single-valued: a created user
\* holds exactly the submitted role, or none; after a successful update the
\* user holds exactly the submitted role, or none, whatever it held before;
\* and every user holds at most one role.
C11_RoleReplace ==
    [][/\ (response'.op = "user_create" /\ Saved(response')) =>
             \A c \in Clients, f \in CreateForms :
                UserCreateView(c, f) => users'[NewId(users)].groups = RoleSet(f)
       /\ (response'.op = "user_update" /\ Saved(response')) =>
             \A c \in Clients, f \in UpdateForms :
                UserUpdateView(c, response'.pk, f) =>
                   users'[response'.pk].groups = RoleSet(f)
       /\ \A id \in DOMAIN users' : Cardinality(users'[id].groups) <= 1
      ]_vars

\* An update gave the role Viewer to a created account, which the forms
\* create with the role Manager or with none
C11_Witness ==
    /\ response.op = "user_update"
    /\ Saved(response)
    /\ ~users[response.pk].is_superuser
    /\ users[response.pk].groups = {"Viewer"}

\* The users that bear a username
Named(U, username) == {id \in DOMAIN U : U[id].username = username}

UniqueUsernames(U) == \A i, j \in DOMAIN U : U[i].username = U[j].username => i = j

\* C12: no two users share a username, before and after every step; a
\* create for a username that is already in the store is rejected with an
\* error on the username field and the store still holds exactly one user of
\* that name.
C12_UsernameUnique ==
    [][/\ UniqueUsernames(users)
       /\ UniqueUsernames(users')
       /\ response'.op = "user_create" =>
             \A c \in Clients, f \in CreateForms :
                (/\ UserCreateView(c, f)
                 /\ response'.status \notin {302, 403} \/ Saved(response')
                 /\ Named(users, Strip(f.username)) # {}) =>
                   /\ response'.status = 200
                   /\ "username" \in response'.errors
                   /\ users' = users
                   /\ Cardinality(Named(users', Strip(f.username))) = 1
      ]_vars

\* A create was refused for its username alone, which a user bears
C12_Witness ==
    /\ response.op = "user_create"
    /\ response.status = 200
    /\ response.errors = {"username"}
    /\ Cardinality(Named(users, Strip(response.username))) = 1
    /\ Cardinality(DOMAIN users) = 2

\* The request passed login_required and the permission check
PassedGate(r) == r.status \in {200, 404} \/ Saved(r)

\* C13: a create or an update that validation rejects leaves the user
\* table, role links included, exactly as it was; an e-mail address without
\* "@" is rejected with an error on the email field.
C13_AllOrNothing ==
    [][/\ (response'.op = "user_create" /\ PassedGate(response')) =>
             \A c \in Clients, f \in CreateForms :
                UserCreateView(c, f) =>
                   /\ ~Contains(Strip(f.email), "@") =>
                         /\ response'.status = 200
                         /\ "email" \in response'.errors
                   /\ response'.status = 200 =>
                         /\ response'.errors # {}
                         /\ users' = users
       /\ (response'.op = "user_update" /\ response'.status \in {200, 302}
                                         /\ response'.pk \in DOMAIN users) =>
             \A c \in Clients, f \in UpdateForms :
                (UserUpdateView(c, response'.pk, f) /\ PassedGate(response')) =>
                   /\ ~Contains(Strip(f.email), "@") =>
                         /\ response'.status = 200
                         /\ "email" \in response'.errors
                   /\ response'.status = 200 =>
                         /\ response'.errors # {}
                         /\ users' = users
      ]_vars

\* An update of a user who holds a role was refused for its e-mail address
\* alone, and the user's row keeps an address with "@" and the role
C13_Witness ==
    /\ response.op = "user_update"
    /\ response.status = 200
    /\ response.errors = {"email"}
    /\ users[response.pk].groups # {}
    /\ Contains(users[response.pk].email, "@")

\* C14: a create by a caller who may add users fails with validation errors,
\* writing nothing, whenever the username is already in the store, or the
\* e-mail address has no "@", or the password is shorter than 8 characters;
\* a create that succeeds has none of the three.
C14_CreateValidation ==
    [][(response'.op = "user_create" /\ PassedGate(response')) =>
          \A c \in Clients, f \in CreateForms :
             UserCreateView(c, f) =>
                LET taken == Named(users, Strip(f.username)) # {}
                    no_at == ~Contains(f.email, "@")
                    short == Len(f.password1) < 8
                IN /\ (taken \/ no_at \/ short) =>
                         /\ response'.status = 200
                         /\ response'.errors # {}
                         /\ users' = users
                   /\ taken => "username" \in response'.errors
                   /\ no_at => "email" \in response'.errors
                   /\ short => "password2" \in response'.errors
                   /\ Saved(response') => ~taken /\ ~no_at /\ ~short
      ]_vars

\* A create was refused for its password alone
C14_Witness ==
    /\ response.op = "user_create"
    /\ response.status = 200
    /\ response.errors = {"password2"}
    /\ Named(users, Strip(response.username)) = {}

\* The user-administration operations and the permission each one requires
AdminOps == {"user_list", "user_create", "user_update", "user_deactivate",
             "user_reactivate"}

RequiredPermission(op) ==
    CASE op = "user_list" -> "auth.view_user"
      [] op = "user_create" -> "auth.add_user"
      [] OTHER -> "auth.change_user"

\* The request was turned away: sent to the login page or refused
Denied(r) ==
    \/ r.status = 403
    \/ r.status = 302 /\ r.user = Anonymous /\ r.location # "user_list"

\* The step is a user-administration request of client c, the one that
\* response' answers
AdminRequest(c) ==
    /\ now' = now
    /\ nextKey' = nextKey
    /\ CASE response'.op = "user_list" -> UserListView(c)
         [] response'.op = "user_create" ->
               \E f \in CreateForms : UserCreateView(c, f)
         [] response'.op = "user_update" ->
               \E f \in UpdateForms : UserUpdateView(c, response'.pk, f)
         [] response'.op = "user_deactivate" -> user_deactivate(c, response'.pk)
         [] response'.op = "user_reactivate" -> user_reactivate(c, response'.pk)
         [] OTHER -> FALSE

\* C15: a user-administration request is carried out only for a principal
\* who holds the operation's permission; a request without a valid session,
\* or from a principal without the permission, is denied and leaves every
\* user row and role link unchanged.
C15_PermissionGate ==
    [][response'.op \in AdminOps =>
          \A c \in Clients :
             AdminRequest(c) =>
                LET principal == RequestUser(c)
                IN IF has_perm(users, principal, RequiredPermission(response'.op))
                   THEN PassedGate(response') /\ response'.user = principal
                   ELSE Denied(response') /\ users' = users
      ]_vars

\* A principal whose role grants view_user alone was refused the creation of
\* a user
C15_Witness ==
    /\ response.op = "user_create"
    /\ response.status = 403
    /\ response.user \in DOMAIN users
    /\ users[response.user].groups = {"Viewer"}
    /\ has_perm(users, response.user, "auth.view_user")
    /\ Named(users, Strip(response.username)) = {response.user}

\* The path of each protected route
Path(op) ==
    CASE op = "dashboard" -> "/dashboard/"
      [] op = "user_list" -> "/users/"
      [] op = "user_create" -> "/users/create/"
      [] op = "user_update" -> "/users/pk/edit/"
      [] op = "user_deactivate" -> "/users/pk/deactivate/"
      [] op = "user_reactivate" -> "/users/pk/reactivate/"

\* C16: a protected request without a principal is redirected to the login
\* page with the requested path as next, on the dashboard and on every
\* user-administration route; a request of an authenticated principal who
\* lacks the permission is answered 403 and is not redirected.
C16_DenialDistinguished ==
    [][response'.op \in AdminOps \cup {"dashboard"} =>
          \A c \in Clients :
             (AdminRequest(c) \/ (response'.op = "dashboard" /\ dashboard_view(c))) =>
                LET principal == RequestUser(c)
                IN IF principal = Anonymous
                   THEN /\ response'.status = 302
                        /\ response'.location = "login?next=" \o Path(response'.op)
                        /\ response'.user = Anonymous
                   ELSE /\ response'.user = principal
                        /\ response'.location \in {"", "user_list"}
                        /\ (/\ response'.op \in AdminOps
                            /\ ~has_perm(users, principal,
                                         RequiredPermission(response'.op))) =>
                              /\ response'.status = 403
                              /\ response'.location = ""
      ]_vars

\* A logged-in account without a role asked for the user list and got 403
C16_Witness ==
    /\ response.op = "user_list"
    /\ response.status = 403
    /\ response.location = ""
    /\ response.user \in DOMAIN users
    /\ users[response.user].groups = {}
    /\ get_user(users, sessions, now, response.session_key) = response.user

\* The store without the user of a name, and with that user inactive
StoreWithout(U, username) == [id \in DOMAIN U \ Named(U, username) |-> U[id]]

StoreInactive(U, username) ==
    [id \in DOMAIN U |->
        IF U[id].username = username THEN [U[id] EXCEPT !.is_active = FALSE] ELSE U[id]]

\* C17: a rejected login does not tell whether the username exists.  The
\* response to every rejected login is the same function of the request
\* (same status, same message, no redirect, no field errors), no session is
\* created or changed, and the stores that differ from the current one only
\* in that the user is absent, or inactive, reject the same request and
\* resolve the caller, when the caller is not that user, to the same
\* principal.
C17_NoUsernameLeak ==
    [][(response'.op = "login" /\ response'.status # 302) =>
          \A c \in Clients, f \in LoginForms :
             LoginPost(c, f) =>
                LET name == Strip(f.username)
                    Stores == {users, StoreWithout(users, name),
                               StoreInactive(users, name)}
                IN /\ response' = Response("login", c, f, 200, response'.user, "",
                                           "Invalid username or password.", {})
                   /\ sessions' = sessions
                   /\ cookie' = cookie
                   /\ \A U \in Stores :
                         /\ authenticate(U, name, f.password) = Anonymous
                         /\ RequestUser(c) \notin Named(users, name) =>
                               get_user(U, sessions, now, cookie[c]) = response'.user
      ]_vars

\* An anonymous caller was refused for a wrong password on an existing,
\* active account
C17_Witness ==
    /\ Rejected(response)
    /\ response.user = Anonymous
    /\ response.password = AdminPassword
    /\ \E id \in Named(users, Strip(response.username)) :
          /\ users[id].is_active
          /\ ~users[id].is_superuser
          /\ ~check_password(response.password, users[id].password)

\* C18: the user list holds every user of the store exactly once, active or
\* not, with or without a role, each with the row the store holds, in
\* ascending order of username; listing changes nothing in the store.
C18_ListComplete ==
    [][(response'.op = "user_list" /\ response'.status = 200) =>
          \A c \in Clients :
             UserListView(c) =>
                LET list == response'.users
                IN /\ Len(list) = Cardinality(DOMAIN users)
                   /\ {list[i].pk : i \in DOMAIN list} = DOMAIN users
                   /\ \A i \in DOMAIN list : list[i].user = users[list[i].pk]
                   /\ \A i, j \in DOMAIN list :
                         i < j => LexLess(list[i].user.username, list[j].user.username)
                   /\ users' = users
      ]_vars

\* The list shows two users in an order that is not the order of their ids,
\* an inactive one first
C18_Witness ==
    /\ response.op = "user_list"
    /\ response.status = 200
    /\ Len(response.users) = 2
    /\ response.users[1].pk = 2
    /\ ~response.users[1].user.is_active
    /\ response.users[2].user.is_active

\* C19: an update, a deactivation or a reactivation that names an id which
\* is not in the store, requested by a principal who may change users, fails
\* with 404 and leaves the store as it was; 404 is given for no other id.
C19_NotFound ==
    [][response'.op \in {"user_update", "user_deactivate", "user_reactivate"} =>
          \A c \in Clients :
             (AdminRequest(c) /\ has_perm(users, RequestUser(c), "auth.change_user")) =>
                IF response'.pk \in DOMAIN users
                THEN response'.status # 404
                ELSE /\ response'.status = 404
                     /\ users' = users
      ]_vars

\* An update named an id that no user has and got 404
C19_Witness ==
    /\ response.op = "user_update"
    /\ response.status = 404
    /\ response.user # Anonymous
    /\ users # <<>>
    /\ response.pk \notin DOMAIN users

\* C20: a deactivation sets the active flag of the named user to false and a
\* reactivation sets it to true, and neither changes anything else in the
\* store: the user's other fields and role links and every other user's row
\* stay as they were.  A call on a user whose flag already has the value,
\* as after a first call, leaves the store as it is.
C20_IdempotentToggles ==
    [][(response'.op \in {"user_deactivate", "user_reactivate"} /\ Saved(response')) =>
          \A c \in Clients :
             AdminRequest(c) =>
                LET pk == response'.pk
                    flag == (response'.op = "user_reactivate")
                    once == [users EXCEPT ![pk].is_active = flag]
                    twice == [once EXCEPT ![pk].is_active = flag]
                IN /\ users' = once
                   /\ twice = once
                   /\ users[pk].is_active = flag => users' = users
      ]_vars

\* A user other than the caller, who holds a role and has names, has been
\* deactivated and keeps them
C20_Witness ==
    /\ response.op = "user_deactivate"
    /\ Saved(response)
    /\ response.pk # response.user
    /\ ~users[response.pk].is_active
    /\ users[response.pk].groups # {}
    /\ users[response.user].is_active

\* The password field holds a salted hash of one of the passwords, and the
\* raw form of none
IsHash(p) ==
    /\ p.algorithm = "pbkdf2_sha256"
    /\ p.salt \in Salts
    /\ \E q \in Passwords : check_password(q, p)
    /\ \A q \in Passwords \cup {""} : p # Plaintext(q)

\* C21: the password field of every user holds a one-way hash and never the
\* plaintext, before and after every step; the value a create stores differs
\* from the submitted password and verifies against it; and no update,
\* deactivation, reactivation, login or logout changes a stored hash.
C21_PasswordHashed ==
    [][/\ \A id \in DOMAIN users : IsHash(users[id].password)
       /\ \A id \in DOMAIN users' : IsHash(users'[id].password)
       /\ \A id \in DOMAIN users : users'[id].password = users[id].password
       /\ (response'.op = "user_create" /\ Saved(response')) =>
             \A c \in Clients, f \in CreateForms :
                UserCreateView(c, f) =>
                   LET stored == users'[NewId(users)].password
                   IN /\ stored # Plaintext(f.password1)
                      /\ check_password(f.password1, stored)
                      /\ \A q \in Passwords \ {f.password1} : ~check_password(q, stored)
      ]_vars

\* A created account, later updated and deactivated, still holds the hash of
\* the password it was created with
C21_Witness ==
    /\ response.op = "user_deactivate"
    /\ Saved(response)
    /\ ~users[response.pk].is_superuser
    /\ users[response.pk].first_name # <<>>
    /\ IsHash(users[response.pk].password)
    /\ check_password(UserPassword, users[response.pk].password)

\* The fields of a user row the claim compares
Record(u) ==
    [email |-> u.email, first_name |-> u.first_name, last_name |-> u.last_name,
     is_active |-> u.is_active, groups |-> u.groups]

\* C22: when a deactivation or a reactivation of a user and an update of the
\* same user run concurrently and both succeed, the user's final record
\* (e-mail address, names, active flag, role set) is the result of running
\* the two, each as a whole, in one order or the other.
C22_Serializable ==
    \A r1, r2 \in Requests :
       LET t == inflight[r1]
           u == inflight[r2]
       IN (/\ t.pc = "done" /\ t.op \in {"user_deactivate", "user_reactivate"}
           /\ u.pc = "done" /\ u.op = "user_update"
           /\ t.user # <<>> /\ u.user # <<>>
           /\ t.pk = u.pk
           /\ t.pk # 1) =>
             LET before == InitialUsers[t.pk]
                 toggled(row) == IF t.op = "user_deactivate" THEN Deactivated(row)
                                 ELSE Reactivated(row)
             IN Record(users[t.pk]) \in
                   {Record(toggled(UpdatedUser(before, u.form))),
                    Record(UpdatedUser(toggled(before), u.form))}

\* C23: a deactivation leaves the sessions of the deactivated user in
\* storage, neither expired nor logged out, and from then on each of them
\* resolves to no principal; the dashboard sends the bearer of a stored,
\* unexpired session of an inactive user to the login page.
C23_DeactivationCutsSessions ==
    [][/\ (response'.op = "user_deactivate" /\ Saved(response')) =>
             \A c \in Clients :
                AdminRequest(c) =>
                   \A k \in DOMAIN sessions :
                      sessions[k].auth_user_id = response'.pk =>
                         /\ k \in DOMAIN sessions'
                         /\ sessions'[k] = sessions[k]
                         /\ get_user(users', sessions', now', k) = Anonymous
       /\ response'.op = "dashboard" =>
             \A c \in Clients :
                LET k == cookie[c]
                IN (/\ dashboard_view(c)
                    /\ k \in DOMAIN sessions
                    /\ ~users[sessions[k].auth_user_id].is_active) =>
                      /\ response'.status = 302
                      /\ response'.location = "login?next=/dashboard/"
                      /\ response'.user = Anonymous
      ]_vars

\* The dashboard turned away the bearer of a session that is stored and has
\* not expired, whose user has been made inactive since the login
C23_Witness ==
    /\ response.op = "dashboard"
    /\ response.status = 302
    /\ response.session_key \in DOMAIN sessions
    /\ now < sessions[response.session_key].expire_date
    /\ ~users[sessions[response.session_key].auth_user_id].is_active
    /\ ~users[sessions[response.session_key].auth_user_id].is_superuser

\* C24: a successful update sets the active flag to the submitted value,
\* where a form that does not submit is_active counts as false: the user is
\* inactive after an update without the flag and active after one with it.
C24_UpdateActiveFlag ==
    [][(response'.op = "user_update" /\ Saved(response')) =>
          \A c \in Clients, f \in UpdateForms :
             UserUpdateView(c, response'.pk, f) =>
                users'[response'.pk].is_active = f.is_active
      ]_vars

\* An update that did not submit the flag, and gave the role Viewer, left
\* another user than the caller inactive
C24_Witness ==
    /\ response.op = "user_update"
    /\ Saved(response)
    /\ response.pk # response.user
    /\ users[response.pk].groups = {"Viewer"}
    /\ ~users[response.pk].is_active

====
